---- MODULE Spec2Model ----
(***************************************************************************)
(* Barber appointment platform: the authentication back end (Express      *)
(* routes, AuthController, AuthService, JWT helpers, Redis refresh-token  *)
(* store, error middleware) and the registration front end (zod form      *)
(* schema, RegisterForm.onSubmit, the zustand auth store).                 *)
(*                                                                         *)
(* Strings that the code inspects character by character (names, e-mail   *)
(* addresses, passwords, phone numbers) are tuples of one-character        *)
(* strings.  An optional value is a set with at most one element: {} is   *)
(* "absent / null / undefined", {v} is "present with value v".            *)
(* Time is in seconds, as in the JWT iat/exp claims and the Redis EX      *)
(* option.                                                                 *)
(***************************************************************************)
EXTENDS Integers, Sequences, FiniteSets, TLC

VARIABLES
    users,        \* rows of the User table (prisma.user)
    redis,        \* Redis: key refresh_token:<userId> -> {[value, expireAt]}
    now,          \* wall clock, seconds
    ticks,        \* number of clock advances so far (bounds the exploration)
    held,         \* the token pair a client has kept from an earlier response
    registered,   \* the (email, password) pairs whose registration succeeded
    call,         \* the request handled by the latest step and what the service threw
    resp,         \* the HTTP response of the latest step
    form,         \* RegisterForm: the field values held by react-hook-form
    isSuccess,    \* RegisterForm: useState(false)
    redirectAt,   \* RegisterForm: the pending setTimeout(router.push('/dashboard'))
    route,        \* the page the browser shows
    store,        \* useAuthStore: user, isAuthenticated, isLoading, error
    localStorage, \* the browser's localStorage: accessToken, refreshToken
    pending,      \* the store action that awaits its authApi call
    registerOutcome, \* how the latest useAuthStore.register call ended
    uiLog,        \* what the latest front-end step did
    inflight,     \* the requests whose handler is suspended at an await
    answered,     \* the requests answered so far, in the order of their responses
    loggedOut     \* the users whose logout completed and who have not signed in since

vars == <<users, redis, now, ticks, held, registered, call, resp, form, isSuccess,
          redirectAt, route, store, localStorage, pending, registerOutcome, uiLog,
          inflight, answered, loggedOut>>

backendVars == <<users, redis, now, ticks, held, registered, call, resp>>
frontendVars == <<form, isSuccess, redirectAt, route, store, localStorage, pending, registerOutcome, uiLog>>
asyncVars == <<inflight, answered, loggedOut>>

-----------------------------------------------------------------------------
(* Bounds of the exploration *)

MaxTicks == 2
MaxRequests == 2
MaxAsyncTicks == 1
MaxRedisFaults == 1

-----------------------------------------------------------------------------
(* Program constants *)

AccessTtl == 900
RefreshTtl == 604800
RedisTtl == 604800
RedirectDelay == 2

JwtSecret == "JWT_SECRET"
JwtRefreshSecret == "JWT_REFRESH_SECRET"

-----------------------------------------------------------------------------
(* Characters and sample strings *)

Lower == {"a","b","c","d","e","f","g","h","i","j","k","l","m","n","o","p","q",
          "r","s","t","u","v","w","x","y","z"}
Upper == {"A","B","C","D","E","F","G","H","I","J","K","L","M","N","O","P","Q",
          "R","S","T","U","V","W","X","Y","Z"}
Digit == {"0","1","2","3","4","5","6","7","8","9"}
Space == {" "}
Letter == Lower \cup Upper
AlNum == Letter \cup Digit

Chars(s) == {s[i] : i \in 1..Len(s)}

E1 == <<"a","@","b",".","c","o">>
E2 == <<"z","@","b",".","c","o">>
EBad == <<"a","@","b">>
P1 == <<"P","a","s","s","w","o","r","1">>
P2 == <<"Q","w","e","r","t","y","u","2">>
N1 == <<"A","l">>
N2 == <<"B","o"," ","X">>

-----------------------------------------------------------------------------
(* E-mail syntax, as the two validation libraries check it *)

\* positions of character c in s
IndexesOf(s, c) == {i \in 1..Len(s) : s[i] = c}

\* the labels of a dotted name are non-empty: no leading, trailing or double dot
NoEmptyLabel(s) ==
    /\ Len(s) > 0
    /\ s[1] # "."
    /\ s[Len(s)] # "."
    /\ \A i \in 1..(Len(s) - 1) : ~(s[i] = "." /\ s[i + 1] = ".")

LocalPart(s) == SubSeq(s, 1, (CHOOSE i \in IndexesOf(s, "@") : TRUE) - 1)
DomainPart(s) == SubSeq(s, (CHOOSE i \in IndexesOf(s, "@") : TRUE) + 1, Len(s))
LastLabel(d) ==
    LET dots == IndexesOf(d, ".")
        last == CHOOSE i \in dots : \A j \in dots : j <= i
    IN  SubSeq(d, last + 1, Len(d))

\* Joi.string().email(): one "@", a non-empty local part, a domain of at least
\* two non-empty labels of letters, digits and hyphens
JoiEmail(s) ==
    /\ Cardinality(IndexesOf(s, "@")) = 1
    /\ Len(LocalPart(s)) > 0
    /\ LET d == DomainPart(s)
       IN  /\ NoEmptyLabel(d)
           /\ IndexesOf(d, ".") # {}
           /\ Chars(d) \subseteq AlNum \cup {"-", "."}

\* Joi.string(): a string, and not the empty string (Joi rejects "" unless
\* .allow('') is given)
JoiString(s) == Len(s) > 0

JoiRole(r) == r \subseteq {"CUSTOMER", "BARBER"}

\* registerSchema of validation.schemas.ts
JoiRegisterSchema(body) ==
    /\ JoiString(body.email) /\ JoiEmail(body.email)
    /\ JoiString(body.password) /\ Len(body.password) >= 8
    /\ JoiString(body.firstName) /\ Len(body.firstName) >= 2 /\ Len(body.firstName) <= 50
    /\ JoiString(body.lastName) /\ Len(body.lastName) >= 2 /\ Len(body.lastName) <= 50
    /\ \A p \in body.phone : JoiString(p)
    /\ JoiRole(body.role)

\* loginSchema of validation.schemas.ts
JoiLoginSchema(body) ==
    /\ JoiString(body.email) /\ JoiEmail(body.email)
    /\ JoiString(body.password)

-----------------------------------------------------------------------------
(* registerSchema of register-form.tsx (zod) *)

\* z.string().min(2).max(50).regex(/^[a-zA-Z\s]+$/)
ZodName(s) ==
    /\ Len(s) >= 2
    /\ Len(s) <= 50
    /\ Chars(s) \subseteq Letter \cup Space

\* z.string().email(): local part of letters, digits and _'+-. that neither
\* starts nor ends with a dot, no "..", then "@", then dot-separated labels that
\* start with a letter or digit, the last one of two or more letters
ZodEmail(s) ==
    /\ Cardinality(IndexesOf(s, "@")) = 1
    /\ LET l == LocalPart(s)
           d == DomainPart(s)
       IN  /\ NoEmptyLabel(l)
           /\ Chars(l) \subseteq AlNum \cup {"_", "'", "+", "-", "."}
           /\ NoEmptyLabel(d)
           /\ IndexesOf(d, ".") # {}
           /\ Chars(d) \subseteq AlNum \cup {"-", "."}
           /\ d[1] \in AlNum
           /\ \A i \in IndexesOf(d, ".") : d[i + 1] \in AlNum
           /\ Len(LastLabel(d)) >= 2
           /\ Chars(LastLabel(d)) \subseteq Letter

\* only the length is checked (the character-class regex is dropped)
ZodPasswordLengthOnly(s) == Len(s) >= 8

\* z.string().min(8).regex(/^(?=.*[a-z])(?=.*[A-Z])(?=.*\d)/)
ZodPassword(s) ==
    /\ Len(s) >= 8
    /\ Chars(s) \cap Lower # {}
    /\ Chars(s) \cap Upper # {}
    /\ Chars(s) \cap Digit # {}

\* z.string().optional().refine(val => !val || /^\+?[\d\s\-\(\)]+$/.test(val))
ZodPhone(s) ==
    \/ Len(s) = 0
    \/ LET rest == IF s[1] = "+" THEN Tail(s) ELSE s
       IN  Len(rest) > 0 /\ Chars(rest) \subseteq Digit \cup Space \cup {"-", "(", ")"}

ZodRegisterSchema(f) ==
    /\ ZodName(f.firstName)
    /\ ZodName(f.lastName)
    /\ ZodEmail(f.email) /\ Len(f.email) >= 1
    /\ ZodPassword(f.password)
    /\ ZodPhone(f.phone)
    /\ f.role \in {"CUSTOMER", "BARBER"}
    /\ f.agreeToTerms = TRUE
    /\ f.password = f.confirmPassword

-----------------------------------------------------------------------------
(* bcryptjs *)

\* bcrypt.hash(password, 12): a "$2a$12$" string that is never the plaintext
bcryptHash(password) == <<"$2a$12$">> \o password

\* bcrypt.compare(password, hash)
bcryptCompare(password, hash) == hash = bcryptHash(password)

-----------------------------------------------------------------------------
(* jwt.utils *)

JwtSign(payload, secret, ttl, t) ==
    [userId |-> payload.userId, email |-> payload.email, role |-> payload.role,
     iat |-> t, exp |-> t + ttl, key |-> secret]

\* both tokens signed with config.jwtSecret
generateTokensOneSecret(payload, t) ==
    [accessToken |-> JwtSign(payload, JwtSecret, AccessTtl, t),
     refreshToken |-> JwtSign(payload, JwtSecret, RefreshTtl, t)]

\* generateTokens(payload) at time t
generateTokens(payload, t) ==
    [accessToken |-> JwtSign(payload, JwtSecret, AccessTtl, t),
     refreshToken |-> JwtSign(payload, JwtRefreshSecret, RefreshTtl, t)]

\* jwt.verify(token, secret) at time t: {} when it returns the decoded payload,
\* otherwise the error it throws (signature first, then expiry)
JwtVerifyError(token, secret, t) ==
    IF token.key # secret
    THEN {[name |-> "JsonWebTokenError", message |-> "invalid signature"]}
    ELSE IF t >= token.exp
         THEN {[name |-> "TokenExpiredError", message |-> "jwt expired"]}
         ELSE {}

Decoded(token) == [userId |-> token.userId, email |-> token.email, role |-> token.role]

verifyAccessTokenError(token, t) == JwtVerifyError(token, JwtSecret, t)
verifyRefreshTokenError(token, t) == JwtVerifyError(token, JwtRefreshSecret, t)

-----------------------------------------------------------------------------
(* prisma.user and redis *)

findUniqueByEmail(us, email) == {u \in us : u.email = email}
findUniqueById(us, id) == {u \in us : u.id = id}

\* The row prisma.user.create stores for `data` with the hashed password
NewUser(us, data, hashedPassword) ==
    [id |-> Cardinality(us) + 1,
     email |-> data.email,
     password |-> hashedPassword,
     firstName |-> data.firstName,
     lastName |-> data.lastName,
     phone |-> data.phone,
     role |-> IF data.role = {} THEN "CUSTOMER" ELSE CHOOSE r \in data.role : TRUE,
     emailVerified |-> FALSE]

\* return user  (the password field is not taken out)
userWithPassword(user) == user

\* const { password, ...userWithoutPassword } = user
userWithoutPassword(user) == [f \in DOMAIN user \ {"password"} |-> user[f]]

\* redis.get(key) at time t: the value unless the key is absent or has expired
redisGet(rd, userId, t) ==
    IF userId \in DOMAIN rd /\ t < rd[userId].expireAt
    THEN {rd[userId].value}
    ELSE {}

\* redis.set(key, value, {EX: 30 * 24 * 60 * 60})
redisSetThirtyDays(rd, userId, value, t) ==
    [k \in DOMAIN rd \cup {userId} |->
        IF k = userId THEN [value |-> value, expireAt |-> t + 30 * 24 * 60 * 60] ELSE rd[k]]

\* redis.set(key, value, {EX: 7 * 24 * 60 * 60}) at time t
redisSet(rd, userId, value, t) ==
    [k \in DOMAIN rd \cup {userId} |->
        IF k = userId THEN [value |-> value, expireAt |-> t + RedisTtl] ELSE rd[k]]

\* redis.del(key)
redisDel(rd, userId) == [k \in DOMAIN rd \ {userId} |-> rd[k]]

Payload(user) == [userId |-> user.id, email |-> user.email, role |-> user.role]

PlainError(message) == [name |-> "Error", message |-> message]

-----------------------------------------------------------------------------
(* AuthService: each method maps the state it reads to its outcome:         *)
(* error = what it throws ({} when it returns), value = what it returns,    *)
(* users / redis = the stores after the call.                               *)

Thrown(error, us, rd) == [error |-> {error}, value |-> {}, users |-> us, redis |-> rd]

\* create on a table whose email column has no unique index
prismaCreateNoUnique(us, row) == [error |-> {}, users |-> us \cup {row}]

\* prisma.user.create: email is a unique field (findUnique by email)
prismaCreate(us, row) ==
    IF findUniqueByEmail(us, row.email) # {}
    THEN [error |-> {[name |-> "PrismaClientKnownRequestError",
                      message |-> "Unique constraint failed"]}, users |-> us]
    ELSE [error |-> {}, users |-> us \cup {row}]

\* The stores and the tokens after generateTokens + redis.set for `user`
IssueTokens(user, us, rd, t) ==
    LET tokens == generateTokens(Payload(user), t)
    IN  [tokens |-> tokens, redis |-> redisSet(rd, user.id, tokens.refreshToken, t)]

\* register without the findUnique / existingUser check
registerWithoutExistingCheck(data, us, rd, t) ==
    LET user == NewUser(us, data, bcryptHash(data.password))
        found == findUniqueByEmail(us, data.email)
        others == us \ found
        out == IssueTokens(user, us, rd, t)
    IN  [error |-> {},
         value |-> {[user |-> userWithoutPassword(user), tokens |-> out.tokens]},
         users |-> others \cup {[user EXCEPT !.id = Cardinality(others) + 1]},
         redis |-> out.redis]

AuthService_register(data, us, rd, t) ==
    IF findUniqueByEmail(us, data.email) # {}
    THEN Thrown(PlainError("User already exists with this email"), us, rd)
    ELSE LET hashedPassword == bcryptHash(data.password)
             user == NewUser(us, data, hashedPassword)
             created == prismaCreate(us, user)
             out == IssueTokens(user, created.users, rd, t)
         IN  IF created.error # {}
             THEN [error |-> created.error, value |-> {}, users |-> us, redis |-> rd]
             ELSE [error |-> {},
                   value |-> {[user |-> userWithoutPassword(user), tokens |-> out.tokens]},
                   users |-> created.users,
                   redis |-> out.redis]

AuthService_login(data, us, rd, t) ==
    LET found == findUniqueByEmail(us, data.email)
    IN  IF found = {}
        THEN Thrown(PlainError("Invalid credentials"), us, rd)
        ELSE LET user == CHOOSE u \in found : TRUE
                 out == IssueTokens(user, us, rd, t)
             IN  IF ~bcryptCompare(data.password, user.password)
                 THEN Thrown(PlainError("Invalid credentials"), us, rd)
                 ELSE [error |-> {},
                       value |-> {[user |-> userWithoutPassword(user), tokens |-> out.tokens]},
                       users |-> us,
                       redis |-> out.redis]

AuthService_refreshTokens(userId, us, rd, t) ==
    LET found == findUniqueById(us, userId)
    IN  IF found = {}
        THEN Thrown(PlainError("User not found"), us, rd)
        ELSE LET user == CHOOSE u \in found : TRUE
                 out == IssueTokens(user, us, rd, t)
             IN  [error |-> {}, value |-> {out.tokens}, users |-> us, redis |-> out.redis]

AuthService_logout(userId, us, rd) ==
    [error |-> {}, value |-> {}, users |-> us, redis |-> redisDel(rd, userId)]

AuthService_getProfile(userId, us) ==
    {userWithoutPassword(u) : u \in findUniqueById(us, userId)}

-----------------------------------------------------------------------------
(* HTTP responses, error middleware, request middleware *)

Response(status, message, user, tokens) ==
    [status |-> status, message |-> message, user |-> user, tokens |-> tokens]

\* errorHandler of error.middleware
errorHandler(error) ==
    IF error.name = "ValidationError" THEN Response(400, "Validation error", {}, {})
    ELSE IF error.name = "UnauthorizedError" THEN Response(401, "Unauthorized", {}, {})
    ELSE IF error.name = "PrismaClientKnownRequestError"
         THEN Response(400, "Database error", {}, {})
    ELSE Response(500, "Internal server error", {}, {})

\* validateBody(schema): a body the schema rejects is answered 400
validateBodyReject == Response(400, "Validation error", {}, {})

\* authenticateToken: the bearer token of the Authorization header must verify
\* as an access token; req.user is its decoded payload
authenticateTokenReject(auth, t) ==
    IF auth = {} THEN {Response(401, "Access token required", {}, {})}
    ELSE IF verifyAccessTokenError(CHOOSE a \in auth : TRUE, t) # {}
         THEN {Response(403, "Invalid or expired token", {}, {})}
         ELSE {}

-----------------------------------------------------------------------------
(* AuthController: the response and the stores after each handler *)

Handled(response, thrown, us, rd) ==
    [resp |-> response, thrown |-> thrown, users |-> us, redis |-> rd]

\* try { result = await service...; res.status(ok).json(...) } catch { next(error) }
Respond(out, okStatus, okMessage) ==
    IF out.error # {}
    THEN Handled(errorHandler(CHOOSE e \in out.error : TRUE), out.error, out.users, out.redis)
    ELSE LET v == CHOOSE x \in out.value : TRUE
         IN  Handled(Response(okStatus, okMessage, {v.user}, {v.tokens}), {},
                     out.users, out.redis)

AuthController_register(body, us, rd, t) ==
    Respond(AuthService_register(body, us, rd, t), 201, "User registered successfully")

AuthController_login(body, us, rd, t) ==
    Respond(AuthService_login(body, us, rd, t), 200, "Login successful")

\* refreshToken with `if (!storedToken)` only: the stored token is not compared
refreshTokenWithoutCompare(body, us, rd, t) ==
    IF body.refreshToken = {}
    THEN Handled(Response(400, "Refresh token required", {}, {}), {}, us, rd)
    ELSE LET refreshToken == CHOOSE x \in body.refreshToken : TRUE
             verr == verifyRefreshTokenError(refreshToken, t)
             decoded == Decoded(refreshToken)
             storedToken == redisGet(rd, decoded.userId, t)
             out == AuthService_refreshTokens(decoded.userId, us, rd, t)
         IN  IF verr # {}
             THEN Handled(errorHandler(CHOOSE e \in verr : TRUE), verr, us, rd)
             ELSE IF storedToken = {}
             THEN Handled(Response(403, "Invalid refresh token", {}, {}), {}, us, rd)
             ELSE IF out.error # {}
             THEN Handled(errorHandler(CHOOSE e \in out.error : TRUE), out.error, us, rd)
             ELSE Handled(Response(200, "Tokens refreshed successfully", {}, out.value),
                          {}, out.users, out.redis)

AuthController_refreshToken(body, us, rd, t) ==
    IF body.refreshToken = {}
    THEN Handled(Response(400, "Refresh token required", {}, {}), {}, us, rd)
    ELSE LET refreshToken == CHOOSE x \in body.refreshToken : TRUE
             verr == verifyRefreshTokenError(refreshToken, t)
             decoded == Decoded(refreshToken)
             storedToken == redisGet(rd, decoded.userId, t)
             out == AuthService_refreshTokens(decoded.userId, us, rd, t)
         IN  IF verr # {}
             THEN Handled(errorHandler(CHOOSE e \in verr : TRUE), verr, us, rd)
             ELSE IF storedToken = {} \/ storedToken # {refreshToken}
             THEN Handled(Response(403, "Invalid refresh token", {}, {}), {}, us, rd)
             ELSE IF out.error # {}
             THEN Handled(errorHandler(CHOOSE e \in out.error : TRUE), out.error, us, rd)
             ELSE Handled(Response(200, "Tokens refreshed successfully", {}, out.value),
                          {}, out.users, out.redis)

AuthController_logout(reqUser, us, rd) ==
    IF reqUser = {}
    THEN Handled(Response(401, "Authentication required", {}, {}), {}, us, rd)
    ELSE LET out == AuthService_logout((CHOOSE u \in reqUser : TRUE).userId, us, rd)
         IN  Handled(Response(200, "Logged out successfully", {}, {}), {},
                     out.users, out.redis)

AuthController_getProfile(reqUser, us, rd) ==
    IF reqUser = {}
    THEN Handled(Response(401, "Authentication required", {}, {}), {}, us, rd)
    ELSE LET user == AuthService_getProfile((CHOOSE u \in reqUser : TRUE).userId, us)
         IN  IF user = {}
             THEN Handled(Response(404, "User not found", {}, {}), {}, us, rd)
             ELSE Handled(Response(200, "OK", user, {}), {}, us, rd)

-----------------------------------------------------------------------------
(* Routes of auth.routes: middleware, then controller *)

Route_register(body, us, rd, t) ==
    IF ~JoiRegisterSchema(body)
    THEN Handled(validateBodyReject, {}, us, rd)
    ELSE AuthController_register(body, us, rd, t)

Route_login(body, us, rd, t) ==
    IF ~JoiLoginSchema(body)
    THEN Handled(validateBodyReject, {}, us, rd)
    ELSE AuthController_login(body, us, rd, t)

Route_refresh(body, us, rd, t) == AuthController_refreshToken(body, us, rd, t)

ReqUser(auth) == {Decoded(a) : a \in auth}

Route_logout(auth, us, rd, t) ==
    LET rej == authenticateTokenReject(auth, t)
    IN  IF rej # {}
        THEN Handled(CHOOSE r \in rej : TRUE, {}, us, rd)
        ELSE AuthController_logout(ReqUser(auth), us, rd)

Route_profile(auth, us, rd, t) ==
    LET rej == authenticateTokenReject(auth, t)
    IN  IF rej # {}
        THEN Handled(CHOOSE r \in rej : TRUE, {}, us, rd)
        ELSE AuthController_getProfile(ReqUser(auth), us, rd)

-----------------------------------------------------------------------------
(* The back end as a state machine: one action per route *)

NoResponse == Response(0, "", {}, {})
NoCall == [op |-> "none", arg |-> {}, thrown |-> {}]

BogusToken ==
    [userId |-> 1, email |-> E1, role |-> "CUSTOMER", iat |-> 0, exp |-> RefreshTtl,
     key |-> "attacker"]

\* What a client can put into a request: a token it was given and has kept,
\* or one it made up
Presentable ==
    UNION {{tk.accessToken, tk.refreshToken} : tk \in held} \cup {BogusToken}

RegisterBodies ==
    {[email |-> e, password |-> P1, firstName |-> N1, lastName |-> N2,
      phone |-> {}, role |-> {}] : e \in {E1, EBad}}
        \cup {[email |-> E2, password |-> P1, firstName |-> N1, lastName |-> N2,
               phone |-> {<<"5","5","5">>}, role |-> {"BARBER"}]}

LoginBodies ==
    {[email |-> E1, password |-> P1], [email |-> E1, password |-> P2],
     [email |-> E2, password |-> P1], [email |-> EBad, password |-> P1]}

RefreshBodies == {[refreshToken |-> {}]} \cup {[refreshToken |-> {tk}] : tk \in Presentable}

AuthHeaders == {{}} \cup {{tk} : tk \in Presentable}

\* The server handled request `op` with input `arg` and outcome `h`
Serve(op, arg, h) ==
    /\ users' = h.users
    /\ redis' = h.redis
    /\ resp' = h.resp
    /\ call' = [op |-> op, arg |-> arg, thrown |-> h.thrown]
    /\ registered' =
          IF op = "register" /\ h.resp.status = 201
          THEN registered \cup {[email |-> arg.email, password |-> arg.password]}
          ELSE registered
    /\ UNCHANGED <<now, ticks, held>>
    /\ UNCHANGED asyncVars

PostRegister(body) ==
    /\ Serve("register", body, Route_register(body, users, redis, now))
    /\ UNCHANGED frontendVars

PostLogin(body) ==
    /\ Serve("login", body, Route_login(body, users, redis, now))
    /\ UNCHANGED frontendVars

PostRefresh(body) ==
    /\ Serve("refresh", body, Route_refresh(body, users, redis, now))
    /\ UNCHANGED frontendVars

PostLogout(auth) ==
    /\ Serve("logout", auth, Route_logout(auth, users, redis, now))
    /\ UNCHANGED frontendVars

GetProfile(auth) ==
    /\ Serve("profile", auth, Route_profile(auth, users, redis, now))
    /\ UNCHANGED frontendVars

\* The client keeps the tokens of the response it just received
ClientKeep ==
    /\ resp.tokens # {}
    /\ held # resp.tokens
    /\ held' = resp.tokens
    /\ call' = [op |-> "keep", arg |-> {}, thrown |-> {}]
    /\ resp' = NoResponse
    /\ UNCHANGED <<users, redis, now, ticks, registered>>
    /\ UNCHANGED frontendVars
    /\ UNCHANGED asyncVars

TickSteps == {1, AccessTtl, RefreshTtl}

Tick(d) ==
    /\ ticks < MaxTicks
    /\ now' = now + d
    /\ ticks' = ticks + 1
    /\ call' = [op |-> "tick", arg |-> d, thrown |-> {}]
    /\ resp' = NoResponse
    /\ UNCHANGED <<users, redis, held, registered>>
    /\ UNCHANGED asyncVars

-----------------------------------------------------------------------------
(* The front end: RegisterForm, useAuthStore, DashboardPage *)

BlankForm ==
    [firstName |-> <<>>, lastName |-> <<>>, email |-> <<>>, password |-> <<>>,
     confirmPassword |-> <<>>, phone |-> <<>>, role |-> "CUSTOMER",
     agreeToTerms |-> FALSE]

InitialStore == [user |-> {}, isAuthenticated |-> FALSE, isLoading |-> FALSE, error |-> {}]
EmptyStorage == [accessToken |-> {}, refreshToken |-> {}]

\* const { confirmPassword, agreeToTerms, ...registrationData } = data: the
\* request body; an input left empty is sent as the empty string
registrationData(f) ==
    [firstName |-> f.firstName, lastName |-> f.lastName, email |-> f.email,
     password |-> f.password, phone |-> {f.phone}, role |-> {f.role}]

\* Whether a submit of the form reaches onSubmit: the submit button is
\* disabled while isLoading, and handleSubmit runs the zod resolver first
handleSubmitCalls(f, s) == ~s.isLoading /\ ZodRegisterSchema(f)

\* set({ isLoading: true, error: null })
StoreBegin(s) == [s EXCEPT !.isLoading = TRUE, !.error = {}]

\* apiClient: the call resolves with the response body on a 2xx status and
\* rejects otherwise; `served` is {} when no response arrived at all
ApiOutcome(served) ==
    [ok |-> \E r \in served : r.status >= 200 /\ r.status < 300, response |-> served]

\* error.response?.data?.message || fallback
ErrorMessage(outcome, fallback) ==
    IF \E r \in outcome.response : r.message # ""
    THEN (CHOOSE r \in outcome.response : TRUE).message
    ELSE fallback

\* the success branch leaves isLoading set
StoreAuthSettledStillLoading(s, ls, outcome, fallback) ==
    IF outcome.ok
    THEN LET r == CHOOSE x \in outcome.response : TRUE
             tk == CHOOSE x \in r.tokens : TRUE
         IN  [store |-> [s EXCEPT !.user = r.user, !.isAuthenticated = TRUE],
              localStorage |-> [accessToken |-> {tk.accessToken},
                                refreshToken |-> {tk.refreshToken}],
              rejected |-> FALSE]
    ELSE [store |-> [s EXCEPT !.error = {ErrorMessage(outcome, fallback)},
                              !.isLoading = FALSE],
          localStorage |-> ls,
          rejected |-> TRUE]

\* The body of useAuthStore.login / register after the await
StoreAuthSettled(s, ls, outcome, fallback) ==
    IF outcome.ok
    THEN LET r == CHOOSE x \in outcome.response : TRUE
             tk == CHOOSE x \in r.tokens : TRUE
         IN  [store |-> [s EXCEPT !.user = r.user, !.isAuthenticated = TRUE,
                                  !.isLoading = FALSE],
              localStorage |-> [accessToken |-> {tk.accessToken},
                                refreshToken |-> {tk.refreshToken}],
              rejected |-> FALSE]
    ELSE [store |-> [s EXCEPT !.error = {ErrorMessage(outcome, fallback)},
                              !.isLoading = FALSE],
          localStorage |-> ls,
          rejected |-> TRUE]

useAuthStore_login(s, ls, outcome) == StoreAuthSettled(s, ls, outcome, "Login failed")

useAuthStore_register(s, ls, outcome) ==
    StoreAuthSettled(s, ls, outcome, "Registration failed")

\* the cleanup sits after the await instead of in `finally`
logoutWithoutFinally(s, ls, outcome) ==
    IF outcome.ok
    THEN [store |-> [s EXCEPT !.user = {}, !.isAuthenticated = FALSE, !.error = {}],
          localStorage |-> EmptyStorage,
          rejected |-> FALSE]
    ELSE [store |-> s, localStorage |-> ls, rejected |-> TRUE]

\* try { await authApi.logout() } catch { log } finally { clear }
useAuthStore_logout(s, ls, outcome) ==
    [store |-> [s EXCEPT !.user = {}, !.isAuthenticated = FALSE, !.error = {}],
     localStorage |-> EmptyStorage,
     rejected |-> FALSE]

\* setIsSuccess(true) and setTimeout whatever registerUser did
onSubmitIgnoringResult(rejected, wasSuccess, timer, t) ==
    [isSuccess |-> TRUE, redirectAt |-> {t + RedirectDelay}]

\* RegisterForm.onSubmit after `await registerUser(registrationData)`
onSubmitSettled(rejected, wasSuccess, timer, t) ==
    IF rejected
    THEN [isSuccess |-> wasSuccess, redirectAt |-> timer]
    ELSE [isSuccess |-> TRUE, redirectAt |-> {t + RedirectDelay}]

FormDisplayed == route = "/auth/register" /\ ~isSuccess

PShort == <<"P","a","1">>
PNoDigit == <<"P","a","s","s","w","o","r","d">>
PNoUpper == <<"p","a","s","s","w","o","r","1">>
PNoLower == <<"P","A","S","S","W","O","R","1">>
LongName == [i \in 1..51 |-> "a"]
PhoneOk == <<"+","1"," ","(","5",")","-","5">>
PhoneBad == <<"5","x">>

\* What the user may type into each field
FieldSamples ==
    [firstName |-> {<<>>, N1, <<"A">>, <<"A","1">>, LongName},
     lastName |-> {<<>>, N2},
     email |-> {<<>>, E2, EBad},
     password |-> {<<>>, P1, PShort, PNoDigit, PNoUpper, PNoLower},
     confirmPassword |-> {<<>>, P1, PNoDigit},
     phone |-> {<<>>, PhoneOk, PhoneBad},
     role |-> {"CUSTOMER", "BARBER"},
     agreeToTerms |-> {FALSE, TRUE}]

\* Front-end steps do not involve the server
NoServer ==
    /\ call' = NoCall
    /\ resp' = NoResponse
    /\ UNCHANGED <<users, redis, now, ticks, held, registered>>
    /\ UNCHANGED asyncVars

\* onChange of one input
FormInput(field, value) ==
    /\ FormDisplayed
    /\ form[field] # value
    /\ form' = [form EXCEPT ![field] = value]
    /\ uiLog' = [op |-> "input"]
    /\ NoServer
    /\ UNCHANGED <<isSuccess, redirectAt, route, store, localStorage, pending,
                   registerOutcome>>

\* <form onSubmit={handleSubmit(onSubmit)}>: up to the await in useAuthStore.register
FormSubmit ==
    /\ FormDisplayed
    /\ pending = {}
    /\ LET called == handleSubmitCalls(form, store)
       IN  /\ uiLog' = [op |-> "submit", called |-> called]
           /\ IF called
              THEN /\ store' = StoreBegin(store)
                   /\ pending' = {[op |-> "register", data |-> registrationData(form)]}
                   /\ registerOutcome' = "pending"
              ELSE UNCHANGED <<store, pending, registerOutcome>>
    /\ NoServer
    /\ UNCHANGED <<form, isSuccess, redirectAt, route, localStorage>>

\* useAuthStore.login up to its await
StoreLoginStart(data) ==
    /\ pending = {}
    /\ store' = StoreBegin(store)
    /\ pending' = {[op |-> "login", data |-> data]}
    /\ uiLog' = [op |-> "login"]
    /\ NoServer
    /\ UNCHANGED <<form, isSuccess, redirectAt, route, localStorage, registerOutcome>>

\* DashboardPage.handleLogout up to the await in useAuthStore.logout; the
\* request carries the access token of localStorage as its bearer token
HandleLogoutStart ==
    /\ route = "/dashboard"
    /\ pending = {}
    /\ pending' = {[op |-> "logout", data |-> localStorage.accessToken]}
    /\ uiLog' = [op |-> "logout"]
    /\ NoServer
    /\ UNCHANGED <<form, isSuccess, redirectAt, route, store, localStorage,
                   registerOutcome>>

\* The rest of the awaiting store action (and of its caller) once the API call
\* has ended with `outcome`
Settle(p, outcome) ==
    /\ pending' = {}
    /\ form' = form
    /\ IF p.op = "register"
       THEN LET r == useAuthStore_register(store, localStorage, outcome)
                c == onSubmitSettled(r.rejected, isSuccess, redirectAt, now)
            IN  /\ store' = r.store
                /\ localStorage' = r.localStorage
                /\ isSuccess' = c.isSuccess
                /\ redirectAt' = c.redirectAt
                /\ registerOutcome' = IF r.rejected THEN "rejected" ELSE "resolved"
                /\ route' = route
                /\ uiLog' = [op |-> "settled", action |-> p.op,
                             rejected |-> r.rejected, apiOk |-> outcome.ok]
       ELSE IF p.op = "login"
       THEN LET r == useAuthStore_login(store, localStorage, outcome)
            IN  /\ store' = r.store
                /\ localStorage' = r.localStorage
                /\ uiLog' = [op |-> "settled", action |-> p.op,
                             rejected |-> r.rejected, apiOk |-> outcome.ok]
                /\ UNCHANGED <<isSuccess, redirectAt, registerOutcome, route>>
       ELSE LET r == useAuthStore_logout(store, localStorage, outcome)
            IN  /\ store' = r.store
                /\ localStorage' = r.localStorage
                /\ route' = IF r.rejected THEN route ELSE "/auth/login"
                /\ uiLog' = [op |-> "settled", action |-> p.op,
                             rejected |-> r.rejected, apiOk |-> outcome.ok]
                /\ UNCHANGED <<isSuccess, redirectAt, registerOutcome>>

RouteOf(p, us, rd, t) ==
    IF p.op = "register" THEN Route_register(p.data, us, rd, t)
    ELSE IF p.op = "login" THEN Route_login(p.data, us, rd, t)
    ELSE Route_logout(p.data, us, rd, t)

\* The server answers the pending request and the store action continues
ApiSettle ==
    \E p \in pending :
        LET h == RouteOf(p, users, redis, now)
        IN  /\ Serve(p.op, p.data, h)
            /\ Settle(p, ApiOutcome({h.resp}))

\* The pending request fails without a response (network error)
ApiNetworkError ==
    \E p \in pending :
        /\ NoServer
        /\ Settle(p, ApiOutcome({}))

\* clearError: the 5 s timer of the form's useEffect, or the X button
ClearError ==
    /\ store.error # {}
    /\ store' = [store EXCEPT !.error = {}]
    /\ uiLog' = [op |-> "clearError"]
    /\ NoServer
    /\ UNCHANGED <<form, isSuccess, redirectAt, route, localStorage, pending,
                   registerOutcome>>

\* the setTimeout callback of onSubmit: router.push('/dashboard')
RedirectFire ==
    /\ \E due \in redirectAt : now >= due
    /\ redirectAt' = {}
    /\ route' = "/dashboard"
    /\ uiLog' = [op |-> "redirect"]
    /\ NoServer
    /\ UNCHANGED <<form, isSuccess, store, localStorage, pending, registerOutcome>>

TickUI(d) ==
    /\ Tick(d)
    /\ uiLog' = [op |-> "tick"]
    /\ UNCHANGED <<form, isSuccess, redirectAt, route, store, localStorage, pending,
                   registerOutcome>>

InitBackend ==
    /\ users = {}
    /\ redis = <<>>
    /\ now = 0
    /\ ticks = 0
    /\ held = {}
    /\ registered = {}
    /\ call = NoCall
    /\ resp = NoResponse
    /\ inflight = {}
    /\ answered = <<>>
    /\ loggedOut = {}

InitFrontendWith(f) ==
    /\ form = f
    /\ isSuccess = FALSE
    /\ redirectAt = {}
    /\ route = "/auth/register"
    /\ store = InitialStore
    /\ localStorage = EmptyStorage
    /\ pending = {}
    /\ registerOutcome = "none"
    /\ uiLog = [op |-> "none"]

InitFrontend == InitFrontendWith(BlankForm)

Init == InitBackend /\ InitFrontend

Next ==
    \/ \E body \in RegisterBodies : PostRegister(body)
    \/ \E body \in LoginBodies : PostLogin(body)
    \/ \E body \in RefreshBodies : PostRefresh(body)
    \/ \E auth \in AuthHeaders : PostLogout(auth)
    \/ \E auth \in AuthHeaders : GetProfile(auth)
    \/ ClientKeep
    \/ \E d \in TickSteps : Tick(d) /\ UNCHANGED frontendVars

Spec == Init /\ [][Next]_vars

\* The registration page in front of a server without accounts
NextForm ==
    \/ \E field \in DOMAIN FieldSamples : \E value \in FieldSamples[field] :
         FormInput(field, value)
    \/ FormSubmit
    \/ ApiSettle
    \/ ApiNetworkError
    \/ ClearError

SpecForm == Init /\ [][NextForm]_vars

\* The browser session: a filled-in registration form, the store and the
\* dashboard, in front of a server that may already hold the account of E1
SeedBody ==
    [email |-> E1, password |-> P1, firstName |-> N1, lastName |-> N2,
     phone |-> {}, role |-> {}]

Seeded == AuthService_register(SeedBody, {}, <<>>, 0)

FilledForm(email, phone) ==
    [firstName |-> N1, lastName |-> N2, email |-> email, password |-> P1,
     confirmPassword |-> P1, phone |-> phone, role |-> "BARBER",
     agreeToTerms |-> TRUE]

InitUI ==
    /\ \/ InitBackend
       \/ /\ users = Seeded.users
          /\ redis = Seeded.redis
          /\ registered = {[email |-> E1, password |-> P1]}
          /\ now = 0 /\ ticks = 0 /\ held = {}
          /\ call = NoCall /\ resp = NoResponse
          /\ inflight = {} /\ answered = <<>> /\ loggedOut = {}
    /\ \E f \in {FilledForm(E1, PhoneOk), FilledForm(E2, PhoneOk),
                   FilledForm(E2, <<>>)} : InitFrontendWith(f)

NextUI ==
    \/ FormSubmit
    \/ \E data \in LoginBodies : StoreLoginStart(data)
    \/ HandleLogoutStart
    \/ ApiSettle
    \/ ApiNetworkError
    \/ ClearError
    \/ RedirectFire
    \/ \E d \in TickSteps : TickUI(d)

SpecUI == InitUI /\ [][NextUI]_vars

-----------------------------------------------------------------------------
(* The handlers step by step.  An async handler runs without interruption  *)
(* up to its next await; the awaited operation (a Prisma query, bcrypt, a  *)
(* Redis command) takes effect in a later step, and the steps of different *)
(* requests interleave.  Each step below is the effect of the awaited      *)
(* operation followed by the handler's code up to the next await.          *)

\* What a rejected Redis command throws (the client is created without a
\* guarantee that the server is reachable; connectRedis only logs a failure)
RedisError == [name |-> "ClientClosedError", message |-> "The client is closed"]

\* A suspended handler: its request, the await it is at, its local variables
\* (user, hashedPassword) and the number of responses sent before it arrived
Request(id, op, pc, arg) ==
    [id |-> id, op |-> op, pc |-> pc, arg |-> arg, user |-> {}, hashed |-> <<>>,
     seen |-> Len(answered)]

\* Outcome of a step: the handler is suspended again (next), or has answered
Continue(r, us, rd) ==
    [next |-> {r}, resp |-> {}, thrown |-> {}, users |-> us, redis |-> rd]
Answer(response, thrown, us, rd) ==
    [next |-> {}, resp |-> {response}, thrown |-> thrown, users |-> us, redis |-> rd]
Caught(error, us, rd) == Answer(errorHandler(error), {error}, us, rd)

\* generateTokens + await redis.set + return, common to register, login and
\* refreshTokens; `up` tells whether Redis executes the command
SetStep(r, okStatus, okMessage, withUser, us, rd, t, up) ==
    LET user == CHOOSE u \in r.user : TRUE
        out == IssueTokens(user, us, rd, t)
    IN  IF ~up
        THEN Caught(RedisError, us, rd)
        ELSE Answer(Response(okStatus, okMessage,
                             IF withUser THEN {userWithoutPassword(user)} ELSE {},
                             {out.tokens}),
                    {}, us, out.redis)

\* AuthService.register, one await at a time
RegisterStep(r, us, rd, t, up) ==
    IF r.pc = "findUnique"
    THEN IF findUniqueByEmail(us, r.arg.email) # {}
         THEN Caught(PlainError("User already exists with this email"), us, rd)
         ELSE Continue([r EXCEPT !.pc = "hash"], us, rd)
    ELSE IF r.pc = "hash"
    THEN Continue([r EXCEPT !.pc = "create", !.hashed = bcryptHash(r.arg.password)], us, rd)
    ELSE IF r.pc = "create"
    THEN LET user == NewUser(us, r.arg, r.hashed)
             created == prismaCreate(us, user)
         IN  IF created.error # {}
             THEN Caught(CHOOSE e \in created.error : TRUE, us, rd)
             ELSE Continue([r EXCEPT !.pc = "set", !.user = {user}], created.users, rd)
    ELSE SetStep(r, 201, "User registered successfully", TRUE, us, rd, t, up)

\* AuthService.login, one await at a time
LoginStep(r, us, rd, t, up) ==
    IF r.pc = "findUnique"
    THEN LET found == findUniqueByEmail(us, r.arg.email)
         IN  IF found = {}
             THEN Caught(PlainError("Invalid credentials"), us, rd)
             ELSE Continue([r EXCEPT !.pc = "compare", !.user = found], us, rd)
    ELSE IF r.pc = "compare"
    THEN IF ~bcryptCompare(r.arg.password, (CHOOSE u \in r.user : TRUE).password)
         THEN Caught(PlainError("Invalid credentials"), us, rd)
         ELSE Continue([r EXCEPT !.pc = "set"], us, rd)
    ELSE SetStep(r, 200, "Login successful", TRUE, us, rd, t, up)

\* AuthController.refreshToken after verifyRefreshToken returned, and
\* AuthService.refreshTokens, one await at a time
RefreshStep(r, us, rd, t, up) ==
    LET refreshToken == CHOOSE x \in r.arg.refreshToken : TRUE
        decoded == Decoded(refreshToken)
    IN  IF r.pc = "get"
        THEN LET storedToken == redisGet(rd, decoded.userId, t)
             IN  IF ~up
                 THEN Caught(RedisError, us, rd)
                 ELSE IF storedToken = {} \/ storedToken # {refreshToken}
                 THEN Answer(Response(403, "Invalid refresh token", {}, {}), {}, us, rd)
                 ELSE Continue([r EXCEPT !.pc = "findUnique"], us, rd)
        ELSE IF r.pc = "findUnique"
        THEN LET found == findUniqueById(us, decoded.userId)
             IN  IF found = {}
                 THEN Caught(PlainError("User not found"), us, rd)
                 ELSE Continue([r EXCEPT !.pc = "set", !.user = found], us, rd)
        ELSE SetStep(r, 200, "Tokens refreshed successfully", FALSE, us, rd, t, up)

\* AuthController.logout / AuthService.logout: await redis.del
LogoutStep(r, us, rd, t, up) ==
    IF ~up
    THEN Caught(RedisError, us, rd)
    ELSE Answer(Response(200, "Logged out successfully", {}, {}), {}, us,
                redisDel(rd, (CHOOSE u \in ReqUser(r.arg) : TRUE).userId))

StepOf(r, us, rd, t, up) ==
    IF r.op = "register" THEN RegisterStep(r, us, rd, t, up)
    ELSE IF r.op = "login" THEN LoginStep(r, us, rd, t, up)
    ELSE IF r.op = "refresh" THEN RefreshStep(r, us, rd, t, up)
    ELSE LogoutStep(r, us, rd, t, up)

\* The synchronous start of a handler: the middleware and the code before
\* the first await
StartOf(id, op, arg, us, rd, t) ==
    IF op = "register"
    THEN IF ~JoiRegisterSchema(arg)
         THEN Answer(validateBodyReject, {}, us, rd)
         ELSE Continue(Request(id, op, "findUnique", arg), us, rd)
    ELSE IF op = "login"
    THEN IF ~JoiLoginSchema(arg)
         THEN Answer(validateBodyReject, {}, us, rd)
         ELSE Continue(Request(id, op, "findUnique", arg), us, rd)
    ELSE IF op = "refresh"
    THEN IF arg.refreshToken = {}
         THEN Answer(Response(400, "Refresh token required", {}, {}), {}, us, rd)
         ELSE LET verr == verifyRefreshTokenError(CHOOSE x \in arg.refreshToken : TRUE, t)
              IN  IF verr # {}
                  THEN Caught(CHOOSE e \in verr : TRUE, us, rd)
                  ELSE Continue(Request(id, op, "get", arg), us, rd)
    ELSE LET rej == authenticateTokenReject(arg, t)
         IN  IF rej # {}
             THEN Answer(CHOOSE x \in rej : TRUE, {}, us, rd)
             ELSE IF ReqUser(arg) = {}
             THEN Answer(Response(401, "Authentication required", {}, {}), {}, us, rd)
             ELSE Continue(Request(id, op, "del", arg), us, rd)

\* The users a completed logout signs out
SignedOutBy(r, o) ==
    IF r.op = "logout" /\ \E a \in o.resp : a.status = 200
    THEN {u.userId : u \in ReqUser(r.arg)}
    ELSE {}

\* The users a response with tokens signs in
SignedInBy(r, o) ==
    IF r.op \in {"register", "login"} /\ \E a \in o.resp : a.tokens # {}
    THEN {u.id : u \in r.user}
    ELSE {}

Log(id, op, arg, seen, o) ==
    IF o.resp = {}
    THEN answered
    ELSE Append(answered, [id |-> id, op |-> op, arg |-> arg, seen |-> seen,
                           resp |-> CHOOSE a \in o.resp : TRUE, thrown |-> o.thrown])

\* The tokens that responses have handed to clients
ReturnedTokens == held \cup UNION {answered[i].resp.tokens : i \in DOMAIN answered}

AsyncRegisterBodies ==
    {SeedBody,
     [email |-> E2, password |-> P1, firstName |-> N1, lastName |-> N2,
      phone |-> {<<"5","5","5">>}, role |-> {"BARBER"}]}

AsyncLoginBodies == {[email |-> E1, password |-> P1]}

NextId == Cardinality(inflight) + Len(answered) + 1

AsyncQuiet ==
    /\ call' = NoCall
    /\ resp' = NoResponse
    /\ UNCHANGED <<now, ticks, held, registered>>
    /\ UNCHANGED frontendVars

\* A request arrives: app.use routes it and its handler runs to the first await
Arrive(op, arg) ==
    /\ NextId <= MaxRequests
    /\ LET o == StartOf(NextId, op, arg, users, redis, now)
       IN  /\ inflight' = inflight \cup o.next
           /\ answered' = Log(NextId, op, arg, Len(answered), o)
           /\ loggedOut' = loggedOut
           /\ users' = o.users
           /\ redis' = o.redis
    /\ AsyncQuiet

ArriveRegister(body) ==
    /\ body \in AsyncRegisterBodies
    /\ Arrive("register", body)

ArriveLogin(body) ==
    /\ body \in AsyncLoginBodies
    /\ Arrive("login", body)

\* A client presents a refresh token, or an access token, that a response gave it
ArriveRefresh(token) ==
    /\ \E tk \in ReturnedTokens : token = tk.refreshToken
    /\ Arrive("refresh", [refreshToken |-> {token}])

ArriveLogout(token) ==
    /\ \E tk \in ReturnedTokens : token = tk.accessToken
    /\ Arrive("logout", {token})

\* The operation a suspended handler awaits completes and the handler runs on
Resume(r, up) ==
    LET o == StepOf(r, users, redis, now, up)
    IN  /\ inflight' = (inflight \ {r}) \cup o.next
        /\ answered' = Log(r.id, r.op, r.arg, r.seen, o)
        /\ loggedOut' = (loggedOut \cup SignedOutBy(r, o)) \ SignedInBy(r, o)
        /\ users' = o.users
        /\ redis' = o.redis
        /\ AsyncQuiet

\* A Redis command of a suspended handler is rejected
UsesRedis(r) == r.pc \in {"set", "get", "del"}

ResumeOk == \E r \in inflight : Resume(r, TRUE)
RedisFaults == Cardinality({i \in DOMAIN answered : answered[i].thrown = {RedisError}})

ResumeRedisDown ==
    /\ RedisFaults < MaxRedisFaults
    /\ \E r \in inflight : UsesRedis(r) /\ Resume(r, FALSE)

AsyncTick ==
    /\ ticks < MaxAsyncTicks
    /\ Tick(1)
    /\ UNCHANGED frontendVars

NextAsync ==
    \/ \E body \in AsyncRegisterBodies : ArriveRegister(body)
    \/ \E body \in AsyncLoginBodies : ArriveLogin(body)
    \/ \E tk \in ReturnedTokens : ArriveRefresh(tk.refreshToken)
    \/ \E tk \in ReturnedTokens : ArriveLogout(tk.accessToken)
    \/ ResumeOk
    \/ ResumeRedisDown
    \/ AsyncTick

\* The server without accounts, or with the account of E1 whose owner holds
\* the tokens of the registration response
InitAsync ==
    /\ \/ InitBackend
       \/ /\ users = Seeded.users
          /\ redis = Seeded.redis
          /\ held = {v.tokens : v \in Seeded.value}
          /\ registered = {[email |-> E1, password |-> P1]}
          /\ now = 0 /\ ticks = 0
          /\ call = NoCall /\ resp = NoResponse
          /\ inflight = {} /\ answered = <<>> /\ loggedOut = {}
    /\ InitFrontend

SpecAsync == InitAsync /\ [][NextAsync]_vars

-----------------------------------------------------------------------------
(* Properties of the back end *)

AlreadyExists == PlainError("User already exists with this email")

\* C1: a register call for an email that already has a user throws 'User already
\* exists with this email', leaves the User table (and so the existing row and
\* its password hash) as it was, and writes nothing to Redis.
C1_DuplicateEmailRejected ==
    [][(call'.op = "register" /\ \E u \in users : u.email = call'.arg.email)
        => /\ call'.thrown = {AlreadyExists}
           /\ users' = users
           /\ redis' = redis
           /\ resp'.tokens = {}]_vars

C1_Witness ==
    /\ call.op = "register"
    /\ call.thrown = {AlreadyExists}
    /\ \E u \in users : u.email = call.arg.email /\ u.id \in DOMAIN redis

TokenIs(token, secret, user) ==
    /\ token.key = secret
    /\ now < token.exp
    /\ token.userId = user.id /\ token.email = user.email /\ token.role = user.role

\* C2: once register(email, password) has succeeded every later login with that
\* email and password succeeds; the tokens of a register or login response
\* verify, the access token with the access secret and the refresh token with
\* the refresh secret, to the payload of the user of that email, and neither
\* verifies with the other secret.
C2_RoundTrip ==
    /\ (call.op = "login"
          /\ [email |-> call.arg.email, password |-> call.arg.password] \in registered)
        => resp.status = 200
    /\ (call.op \in {"register", "login"} /\ resp.status \in {200, 201})
        => /\ resp.tokens # {}
           /\ \A tk \in resp.tokens : \E u \in users :
                /\ u.email = call.arg.email
                /\ TokenIs(tk.accessToken, JwtSecret, u)
                /\ TokenIs(tk.refreshToken, JwtRefreshSecret, u)
                /\ verifyAccessTokenError(tk.accessToken, now) = {}
                /\ verifyRefreshTokenError(tk.refreshToken, now) = {}
                /\ verifyRefreshTokenError(tk.accessToken, now) # {}
                /\ verifyAccessTokenError(tk.refreshToken, now) # {}

C2_Witness ==
    /\ call.op = "login"
    /\ resp.status = 200
    /\ now > 0
    /\ [email |-> call.arg.email, password |-> call.arg.password] \in registered

\* C3: a refresh request is answered with new tokens exactly when its token
\* verifies as a refresh token and equals the token stored (and not expired) in
\* Redis for the user it names; a verified token that is not the stored one is
\* answered 403 'Invalid refresh token' with Redis untouched; a body without
\* refreshToken is answered 400 with nothing written.
C3_RefreshIffStored ==
    [][call'.op = "refresh" =>
        IF call'.arg.refreshToken = {}
        THEN resp'.status = 400 /\ resp'.tokens = {} /\ redis' = redis /\ users' = users
        ELSE LET tk == CHOOSE x \in call'.arg.refreshToken : TRUE
                 verifies == tk.key = JwtRefreshSecret /\ now < tk.exp
                 stored == /\ tk.userId \in DOMAIN redis
                           /\ now < redis[tk.userId].expireAt
                           /\ redis[tk.userId].value = tk
             IN  /\ (resp'.tokens # {}) <=> (verifies /\ stored)
                 /\ (verifies /\ ~stored)
                      => /\ resp'.status = 403
                         /\ resp'.message = "Invalid refresh token"
                         /\ redis' = redis
                 /\ (resp'.tokens # {})
                      => \A n \in resp'.tokens : redis'[tk.userId].value = n.refreshToken]_vars

C3_Witness ==
    /\ call.op = "refresh"
    /\ resp.status = 403
    /\ \E tk \in call.arg.refreshToken :
         tk.userId \in DOMAIN redis /\ redis[tk.userId].value # tk

\* C4: a login with an unknown email or a wrong password, and a refresh whose
\* token fails verification, are answered 401 or 403, never 500.
C4_AuthFailuresAre4xx ==
    (call.op \in {"login", "refresh"} /\ call.thrown # {}) => resp.status \in {401, 403}

\* C10: the user object of a register, login or profile response is the stored
\* row without its password field, and the stored password is the bcrypt hash,
\* never the plaintext the user registered with.
C10_NoPasswordLeaves ==
    /\ \A u \in resp.user :
         /\ "password" \notin DOMAIN u
         /\ \E row \in users :
              /\ DOMAIN u = DOMAIN row \ {"password"}
              /\ \A f \in DOMAIN u : u[f] = row[f]
    /\ \A row \in users : \A c \in registered :
         c.email = row.email => (row.password # c.password /\ row.password[1] = "$2a$12$")

C10_Witness ==
    /\ call.op = "profile"
    /\ resp.user # {}
    /\ \E row \in users : \E c \in registered : c.email = row.email

-----------------------------------------------------------------------------
(* Properties of the front end *)

RegisterSettled == uiLog.op = "settled" /\ uiLog.action = "register"

\* C5: a registration that the form accepted and sent, and that the server
\* answered, is answered 201 with the account created, unless the email already
\* had an account.
C5_AcceptedFormIsRegistered ==
    (RegisterSettled /\ call.op = "register")
        => \/ resp.status = 201 /\ \E u \in users : u.email = call.arg.email
           \/ call.thrown = {AlreadyExists}

OnlyLettersAndSpaces(s) == \A i \in 1..Len(s) : s[i] \in Letter \/ s[i] = " "

LooksLikePhone(s) ==
    \E k \in 0..1 :
        /\ k = 1 => (Len(s) > 1 /\ s[1] = "+")
        /\ \A i \in (k + 1)..Len(s) : s[i] \in Digit \cup {" ", "-", "(", ")"}

\* C6: the store's register action is called by a submit only when no required
\* field is empty, the email is well formed, the password has 8 or more
\* characters with an uppercase letter, a lowercase letter and a digit,
\* confirmPassword equals it, the names hold letters and spaces only, the phone
\* is empty or well formed, and agreeToTerms is checked; what is sent is that
\* form.
C6_InvalidFormNotSubmitted ==
    (uiLog.op = "submit" /\ uiLog.called)
        => /\ form.firstName # <<>> /\ form.lastName # <<>>
           /\ form.email # <<>> /\ form.password # <<>> /\ form.confirmPassword # <<>>
           /\ \E i \in 2..(Len(form.email) - 3) :
                /\ form.email[i] = "@"
                /\ \E j \in (i + 2)..(Len(form.email) - 1) : form.email[j] = "."
           /\ Len(form.password) >= 8
           /\ \E i \in 1..Len(form.password) : form.password[i] \in Upper
           /\ \E i \in 1..Len(form.password) : form.password[i] \in Lower
           /\ \E i \in 1..Len(form.password) : form.password[i] \in Digit
           /\ form.confirmPassword = form.password
           /\ OnlyLettersAndSpaces(form.firstName)
           /\ OnlyLettersAndSpaces(form.lastName)
           /\ LooksLikePhone(form.phone)
           /\ form.agreeToTerms
           /\ \A p \in pending : p.op = "register" /\ p.data.email = form.email
                                  /\ p.data.password = form.password

C6_Witness ==
    /\ uiLog.op = "submit"
    /\ ~uiLog.called
    /\ ~store.isLoading
    /\ pending = {}
    /\ form = [firstName |-> N1, lastName |-> N2, email |-> E2, password |-> PNoDigit,
               confirmPassword |-> PNoDigit, phone |-> PhoneOk, role |-> "BARBER",
               agreeToTerms |-> TRUE]

\* C7: the success page, the pending redirect and the dashboard are reached
\* only once the latest register call has resolved, the redirect fires no
\* earlier than its due time, which is set RedirectDelay after the resolve;
\* a register call that rejects leaves isSuccess false, the form on display
\* with the store's error, and no redirect pending.
C7_SuccessOnlyAfterResolve ==
    /\ []((isSuccess \/ redirectAt # {} \/ route = "/dashboard")
            => registerOutcome = "resolved")
    /\ [][/\ (uiLog'.op = "settled" /\ uiLog'.action = "register" /\ uiLog'.rejected)
             => /\ isSuccess' = FALSE
                /\ redirectAt' = {}
                /\ route' = "/auth/register"
                /\ store'.error # {}
          /\ (uiLog'.op = "settled" /\ uiLog'.action = "register" /\ ~uiLog'.rejected)
             => isSuccess' /\ redirectAt' = {now + RedirectDelay}
          /\ (route # "/dashboard" /\ route' = "/dashboard")
             => \E due \in redirectAt : now >= due]_vars

C7_Witness ==
    /\ RegisterSettled
    /\ uiLog.rejected
    /\ registerOutcome = "rejected"
    /\ store.error # {}
    /\ ~isSuccess

\* C8: when the store's login or register action has resolved, localStorage
\* holds the access and refresh token of the server's response, and the store
\* has that response's user, isAuthenticated, not isLoading, and no error
\* (one store action in flight at a time).
C8_ResolvedSessionStored ==
    (uiLog.op = "settled" /\ uiLog.action \in {"login", "register"} /\ ~uiLog.rejected)
        => /\ resp.tokens # {}
           /\ \A tk \in resp.tokens :
                /\ localStorage.accessToken = {tk.accessToken}
                /\ localStorage.refreshToken = {tk.refreshToken}
           /\ store.user = resp.user
           /\ store.user # {}
           /\ store.isAuthenticated
           /\ ~store.isLoading
           /\ store.error = {}

C8_Witness ==
    /\ uiLog.op = "settled"
    /\ uiLog.action = "login"
    /\ ~uiLog.rejected
    /\ localStorage.refreshToken # {}
    /\ registerOutcome = "resolved"

\* C9: when the store's logout has ended, whether its API call succeeded or
\* failed, localStorage holds no token, user is null, isAuthenticated is false,
\* error is null, and logout has not rejected.
C9_LogoutAlwaysClears ==
    (uiLog.op = "settled" /\ uiLog.action = "logout")
        => /\ localStorage.accessToken = {}
           /\ localStorage.refreshToken = {}
           /\ store.user = {}
           /\ ~store.isAuthenticated
           /\ store.error = {}
           /\ ~uiLog.rejected

C9_Witness ==
    /\ uiLog.op = "settled"
    /\ uiLog.action = "logout"
    /\ ~uiLog.apiOk
    /\ call = NoCall

-----------------------------------------------------------------------------
(* Properties of interleaved requests *)

Registers(e) ==
    {i \in DOMAIN answered : answered[i].op = "register" /\ answered[i].arg.email = e}

Succeeded(i) == answered[i].resp.status < 400 \/ answered[i].resp.tokens # {}

\* C13: however the steps (findUnique, hash, create, set) of register requests
\* with the same email interleave, at most one user row has that email, at
\* most one of the requests is answered with success and tokens, and each other
\* answered request got an error response without tokens.
C13_EmailUniqueUnderRace ==
    \A e \in {b.email : b \in AsyncRegisterBodies} :
        /\ Cardinality({u \in users : u.email = e}) <= 1
        /\ Cardinality({i \in Registers(e) : Succeeded(i)}) <= 1
        /\ \A i \in Registers(e) :
             \/ answered[i].resp.status = 201 /\ answered[i].resp.tokens # {}
             \/ answered[i].resp.status >= 400 /\ answered[i].resp.tokens = {}

\* two requests passed findUnique before either created the row
C13_Witness ==
    \E i, j \in DOMAIN answered :
        /\ i # j
        /\ answered[i].op = "register" /\ answered[j].op = "register"
        /\ answered[i].arg.email = answered[j].arg.email
        /\ answered[i].resp.status = 201
        /\ \E e \in answered[j].thrown : e.name = "PrismaClientKnownRequestError"

IsRefresh(i) == answered[i].op = "refresh"
GotTokens(i) == answered[i].resp.tokens # {}
RedisFailed(i) == answered[i].thrown = {RedisError}

\* request j arrived after response i was sent / while request i was in flight
ArrivedAfter(j, i) == answered[j].seen >= i
Overlapped(i, j) == i < j /\ answered[j].seen < i

\* a refresh request with this token, handled now, would be answered with tokens
AcceptedNow(token) ==
    AuthController_refreshToken([refreshToken |-> {token}], users, redis, now).resp.tokens # {}

\* C14: when a refresh request with token T has been answered with tokens, Redis
\* holds the refresh token of that answer, and each refresh request with T that
\* arrives afterwards (and reaches Redis) is answered 403 without tokens.
C14_RefreshRotates ==
    /\ \A i, j \in DOMAIN answered :
         (/\ IsRefresh(i) /\ IsRefresh(j)
          /\ GotTokens(i)
          /\ answered[j].arg = answered[i].arg
          /\ ArrivedAfter(j, i)
          /\ ~RedisFailed(j))
         => (answered[j].resp.status = 403 /\ ~GotTokens(j))
    /\ (answered # <<>> /\ IsRefresh(Len(answered)) /\ GotTokens(Len(answered)))
         => \A old \in answered[Len(answered)].arg.refreshToken :
              \A new \in answered[Len(answered)].resp.tokens :
                 /\ old.userId \in DOMAIN redis
                 /\ redis[old.userId].value = new.refreshToken

\* C15: of two refresh requests with the same token that are in flight at the
\* same time, at most one is answered with new tokens.
C15_RedeemedOnce ==
    \A i, j \in DOMAIN answered :
        (/\ IsRefresh(i) /\ IsRefresh(j)
         /\ Overlapped(i, j)
         /\ answered[j].arg = answered[i].arg)
        => ~(GotTokens(i) /\ GotTokens(j))

\* C16: when a user's logout has completed, the user has not signed in since
\* and no request is in flight, Redis holds no refresh token for the user and
\* a refresh request with any refresh token returned so far for that user is
\* answered 403.
C16_LogoutEndsSession ==
    \A u \in loggedOut :
        inflight = {} =>
            /\ u \notin DOMAIN redis
            /\ \A tk \in ReturnedTokens :
                 tk.refreshToken.userId = u =>
                    AuthController_refreshToken([refreshToken |-> {tk.refreshToken}],
                                                users, redis, now).resp.status = 403

\* C17: at any time at most one of the refresh tokens returned for a user is
\* accepted by /refresh, and once a second login of the user has been answered,
\* the refresh token of the first login is not accepted any more.
C17_OneValidRefreshToken ==
    /\ \A u \in users :
         Cardinality({tk.refreshToken : tk \in
                        {x \in ReturnedTokens : /\ x.refreshToken.userId = u.id
                                                /\ AcceptedNow(x.refreshToken)}}) <= 1
    /\ \A i, j \in DOMAIN answered :
         (/\ answered[i].op = "login" /\ answered[j].op = "login"
          /\ GotTokens(i) /\ GotTokens(j)
          /\ answered[i].arg.email = answered[j].arg.email
          /\ i < j /\ ArrivedAfter(j, i))
         => \A first \in answered[i].resp.tokens : ~AcceptedNow(first.refreshToken)

\* C18: when a register request is answered with an error, the user row of its
\* email, if there is one, was not created by that request (so that sending
\* the same registration again can succeed).
C18_RegisterAllOrNothing ==
    [][\A r \in inflight :
         (/\ r.op = "register"
          /\ r \notin inflight'
          /\ Len(answered') = Len(answered) + 1
          /\ answered'[Len(answered')].id = r.id
          /\ answered'[Len(answered')].thrown # {})
         => r.user \cap users' = {}]_vars

-----------------------------------------------------------------------------
(* Token lifetimes *)

\* C19: every register, login and refresh that returns tokens stores the new
\* refresh token in Redis with an expiry 7 days (604800 s) after its issuance,
\* which is the token's own exp; the access token expires 900 s after issuance;
\* /refresh answers with tokens only for a token issued less than 7 days ago,
\* and /logout and /profile let a request pass only with an access token issued
\* less than 15 minutes ago.
C19_TokenLifetimes ==
    [][/\ (call'.op \in {"register", "login", "refresh"} /\ resp'.tokens # {})
           => \A n \in resp'.tokens :
                /\ n.refreshToken.iat = now
                /\ n.refreshToken.exp = now + 604800
                /\ n.accessToken.iat = now
                /\ n.accessToken.exp = now + 900
                /\ n.refreshToken.userId \in DOMAIN redis'
                /\ redis'[n.refreshToken.userId] =
                      [value |-> n.refreshToken, expireAt |-> n.refreshToken.exp]
       /\ (call'.op = "refresh" /\ resp'.tokens # {})
           => \A old \in call'.arg.refreshToken : now < old.iat + 604800
       /\ (call'.op \in {"logout", "profile"} /\ resp'.status \in {200, 404})
           => \A access \in call'.arg : now < access.iat + 900]_vars

\* a refresh token presented 7 days after its issuance is not redeemed
C19_Witness ==
    /\ call.op = "refresh"
    /\ resp.tokens = {}
    /\ \E old \in call.arg.refreshToken :
         /\ old.key = JwtRefreshSecret
         /\ now >= old.iat + 604800
         /\ old.userId \in DOMAIN redis
         /\ redis[old.userId].value = old

====
